---- MODULE Spec2Model ----
(***************************************************************************)
(* Model of obspy/core/scripts/runtests.py: the ObsPy test launcher.       *)
(*                                                                         *)
(* main parses the options, runTests resolves the module references to     *)
(* suite names (_getSuite), loads each name, runs the aggregated suite     *)
(* and, when asked, assembles a report record and sends it with one        *)
(* XML-RPC call (_createReport).                                           *)
(*                                                                         *)
(* The program is sequential; pc is the position in it.  What the machine  *)
(* it runs on answers (which names load, which tests break, which version  *)
(* and platform lookups raise) is the variable env, fixed for one run.     *)
(***************************************************************************)
EXTENDS Naturals, Sequences, FiniteSets, TLC

VARIABLES
    argv,       \* parsed command line: [verbose, quiet, report, largs]
    environ,    \* names of the environment variables that are set
    env,        \* the machine: [unloadable, erroring, failing, broken]
    pc,         \* position in the program
    verbosity,  \* runTests parameter
    tests,      \* runTests parameter
    report,     \* runTests parameter
    names,      \* _getSuite: the resolved names
    i,          \* index of the loop the program is in
    suites,     \* _getSuite: the suites loaded so far
    attempted,  \* the names handed to loadTestsFromName, in call order
    stdout,     \* the lines printed by this script
    ttr,        \* the result object of TextTestRunner.run
    runCount,   \* how many times the runner has run
    result,     \* _createReport: the record under construction
    rpcCalls    \* the sp.report calls attempted: <<[success, record]>>

vars == <<argv, environ, env, pc, verbosity, tests, report, names, i, suites,
          attempted, stdout, ttr, runCount, result, rpcCalls>>

-----------------------------------------------------------------------------
(* Bounds of the model *)

MaxTests == 2           \* longest list of module references, Spec
MaxReportTests == 2     \* longest list of module references, SpecReport
MaxUnloadable == 2      \* most names that fail to load, short of all
MaxLiveTests == 1       \* longest list of module references, FairSpec

-----------------------------------------------------------------------------
(* Module constants *)

DEFAULT_MODULES ==
    <<"core", "gse2", "mseed", "sac", "wav", "signal", "imaging",
      "xseed", "seisan", "sh">>

ALL_MODULES == DEFAULT_MODULES \o <<"fissures", "arclink", "seishub">>

DEPENDENCIES == <<"numpy", "scipy", "matplotlib", "lxml.etree", "_omnipy">>

PLATFORM_FUNCS ==
    <<"system", "node", "release", "version", "machine", "processor",
      "python_version", "python_implementation", "python_compiler",
      "architecture">>

-----------------------------------------------------------------------------
(* Helpers *)

Range(s) == {s[k] : k \in DOMAIN s}

SeqsUpTo(S, lo, hi) == UNION {[1..k -> S] : k \in lo..hi}

\* the subsets of S of at most n elements
RECURSIVE SubsetsUpTo(_, _)
SubsetsUpTo(S, n) ==
    IF n = 0
    THEN {{}}
    ELSE LET smaller == SubsetsUpTo(S, n - 1)
         IN  smaller \cup {T \cup {x} : T \in smaller, x \in S}

\* a dict with string keys
EmptyDict == [k \in {} |-> ""]

\* d[k] = v
DictSet(d, k, v) == [x \in (DOMAIN d) \cup {k} |-> IF x = k THEN v ELSE d[x]]

\* result[outer][k] = v
DictSet2(d, outer, k, v) == DictSet(d, outer, DictSet(d[outer], k, v))

-----------------------------------------------------------------------------
(* _getSuite: name resolution *)

\* 'obspy.%s.tests.suite' % d
SuiteName(d) == "obspy." \o d \o ".tests.suite"

IsShortcutAll(test) == test \in Range(ALL_MODULES)

\* test in DEFAULT_MODULES
IsShortcut(test) == test \in Range(DEFAULT_MODULES)

ResolveNamesAll(ts) ==
    IF ts = <<>>
    THEN [k \in DOMAIN ALL_MODULES |-> SuiteName(ALL_MODULES[k])]
    ELSE [k \in DOMAIN ts |->
            IF IsShortcut(ts[k]) THEN SuiteName(ts[k]) ELSE ts[k]]

\* the names list built by the if/else at the head of _getSuite
ResolveNames(ts) ==
    IF ts = <<>>
    THEN [k \in DOMAIN DEFAULT_MODULES |-> SuiteName(DEFAULT_MODULES[k])]
    ELSE [k \in DOMAIN ts |->
            IF IsShortcut(ts[k]) THEN SuiteName(ts[k]) ELSE ts[k]]

-----------------------------------------------------------------------------
(* Exceptions and handlers *)

\* what loadTestsFromName raises for a name it cannot load
LoadErrors == {"ImportError", "AttributeError", "SyntaxError"}

\* what an import or a version / platform query raises
LookupErrors == {"ImportError", "AttributeError"}

\* what ServerProxy.report raises when the call fails
DeliveryErrors == {"socket.error", "xmlrpclib.ProtocolError", "xmlrpclib.Fault"}

\* the classes derived from Exception
ExceptionClasses ==
    LoadErrors \cup LookupErrors \cup DeliveryErrors

ExceptImportError(exc) == exc = "ImportError"

\* a bare "except:" clause
BareExcept(exc) == TRUE

ExceptSocketError(exc) == exc = "socket.error"

\* "except Exception, e:"
ExceptException(exc) == exc \in ExceptionClasses

-----------------------------------------------------------------------------
(* unittest objects *)

\* the suite ut.loadTestsFromName(name, None) returns
LoadTestsFromName(name) == [name |-> name]

\* the test case a suite runs
TestOf(suite) == [method |-> "runTest", cls |-> suite.name]

\* str(method) of a test case
Str(method) == method.method \o " (" \o method.cls \o ")"

ErrorText == "Traceback (most recent call last): Error"
FailureText == "Traceback (most recent call last): AssertionError"

\* the (test, text) pairs the runner collects for the suites in bad
Outcomes(ss, bad, text) ==
    LET hit == SelectSeq(ss, LAMBDA s : s.name \in bad)
    IN  [k \in DOMAIN hit |-> <<TestOf(hit[k]), text>>]

\* TestResult.wasSuccessful
WasSuccessful(r) == Len(r.errors) = 0 /\ Len(r.failures) = 0

NoResult == [errors |-> <<>>, failures |-> <<>>]

-----------------------------------------------------------------------------
(* What the machine answers *)

Now == "datetime.datetime.now()"

\* mod.__version__ of an importable module
Version(module) == "version of " \o module

\* _omnipy.coreVersion()
CoreVersion == "omniORB core version"

\* getattr(platform, func)(): architecture() returns a tuple, the others a str
PlatformCall(func) ==
    IF func = "architecture"
    THEN [type |-> "tuple", val |-> <<"64bit", "ELF">>]
    ELSE [type |-> "str", val |-> "platform " \o func]

\* the names under which env.broken lists the lookups that raise
ModuleKey(module) == "obspy." \o module
PlatformKey(func) == "platform." \o func

LookupKeys ==
    {ModuleKey(m) : m \in Range(ALL_MODULES)}
        \cup Range(DEPENDENCIES)
        \cup {PlatformKey(f) : f \in Range(PLATFORM_FUNCS)}

-----------------------------------------------------------------------------
(* main *)

\* verbosity level chosen from the -v and -q options
VerbosityOf(a) == IF a.verbose THEN 2 ELSE IF a.quiet THEN 0 ELSE 1

ReportFlagOnly(a, e) == a.report

\* options.report or 'OBSPY_REPORT_TEST' in os.environ.keys()
ReportRequested(a, e) == a.report \/ "OBSPY_REPORT_TEST" \in e

\* main: parse the options and call runTests(verbosity, parser.largs, report)
Main ==
    /\ pc = "main"
    /\ verbosity' = VerbosityOf(argv)
    /\ report' = ReportRequested(argv, environ)
    /\ tests' = argv.largs
    /\ pc' = "getSuite"
    /\ UNCHANGED <<argv, environ, env, names, i, suites, attempted, stdout,
                   ttr, runCount, result, rpcCalls>>

-----------------------------------------------------------------------------
(* _getSuite *)

\* the head of _getSuite: build names, start with no suites
Resolve ==
    /\ pc = "getSuite"
    /\ names' = ResolveNames(tests)
    /\ suites' = <<>>
    /\ i' = 1
    /\ pc' = "load"
    /\ UNCHANGED <<argv, environ, env, verbosity, tests, report, attempted,
                   stdout, ttr, runCount, result, rpcCalls>>

DiagnoseVerboseOnly(out, v, name) ==
    IF v > 1
    THEN Append(out, "Cannot import test suite for module " \o name)
    ELSE out

\* if verbosity: print "Cannot import test suite for module %s" % name
Diagnose(out, v, name) ==
    IF v # 0
    THEN Append(out, "Cannot import test suite for module " \o name)
    ELSE out

\* one pass of "for name in names": try to load, skip on any exception
LoadName ==
    /\ pc = "load"
    /\ i <= Len(names)
    /\ attempted' = Append(attempted, names[i])
    /\ IF names[i] \notin env.unloadable
       THEN /\ suites' = Append(suites, LoadTestsFromName(names[i]))
            /\ i' = i + 1
            /\ UNCHANGED <<pc, stdout>>
       ELSE \E exc \in LoadErrors :
              IF BareExcept(exc)
              THEN /\ stdout' = Diagnose(stdout, verbosity, names[i])
                   /\ i' = i + 1
                   /\ UNCHANGED <<pc, suites>>
              ELSE /\ pc' = "crashed"
                   /\ UNCHANGED <<i, suites, stdout>>
    /\ UNCHANGED <<argv, environ, env, verbosity, tests, report, names, ttr,
                   runCount, result, rpcCalls>>

\* return ut.suiteClass(suites)
ReturnSuite ==
    /\ pc = "load"
    /\ i > Len(names)
    /\ pc' = "run"
    /\ UNCHANGED <<argv, environ, env, verbosity, tests, report, names, i,
                   suites, attempted, stdout, ttr, runCount, result, rpcCalls>>

-----------------------------------------------------------------------------
(* runTests *)

\* ttr = unittest.TextTestRunner(verbosity=verbosity).run(suite)
RunSuite ==
    /\ pc = "run"
    /\ ttr' = [errors   |-> Outcomes(suites, env.erroring, ErrorText),
               failures |-> Outcomes(suites, env.failing, FailureText)]
    /\ runCount' = runCount + 1
    /\ pc' = "ifReport"
    /\ UNCHANGED <<argv, environ, env, verbosity, tests, report, names, i,
                   suites, attempted, stdout, result, rpcCalls>>

\* "if report:" is false: runTests returns
SkipReport ==
    /\ pc = "ifReport"
    /\ ~report
    /\ pc' = "done"
    /\ UNCHANGED <<argv, environ, env, verbosity, tests, report, names, i,
                   suites, attempted, stdout, ttr, runCount, result, rpcCalls>>

-----------------------------------------------------------------------------
(* _createReport *)

NewDictNoFailures(d, key) ==
    IF key = "failures" THEN d ELSE DictSet(d, key, EmptyDict)

\* result[key] = {}
NewDict(d, key) == DictSet(d, key, EmptyDict)

OnLookupFailureSkip(d, outer, key) == d

\* the except branch of a metadata lookup: result[outer][key] = ''
OnLookupFailure(d, outer, key) == DictSet2(d, outer, key, "")

\* "if report:" is true: _createReport starts the record
BeginReport ==
    /\ pc = "ifReport"
    /\ report
    /\ result' = NewDict(DictSet(EmptyDict, "timestamp", Now), "obspy")
    /\ i' = 1
    /\ pc' = "obspy"
    /\ UNCHANGED <<argv, environ, env, verbosity, tests, report, names,
                   suites, attempted, stdout, ttr, runCount, rpcCalls>>

\* one pass of "for module in ALL_MODULES"
ObspyVersion ==
    /\ pc = "obspy"
    /\ i <= Len(ALL_MODULES)
    /\ LET module == ALL_MODULES[i] IN
       IF ModuleKey(module) \notin env.broken
       THEN /\ result' = DictSet2(result, "obspy", module, Version(module))
            /\ i' = i + 1
            /\ UNCHANGED pc
       ELSE \E exc \in LookupErrors :
              IF BareExcept(exc)
              THEN /\ result' = OnLookupFailure(result, "obspy", module)
                   /\ i' = i + 1
                   /\ UNCHANGED pc
              ELSE /\ pc' = "crashed"
                   /\ UNCHANGED <<i, result>>
    /\ UNCHANGED <<argv, environ, env, verbosity, tests, report, names,
                   suites, attempted, stdout, ttr, runCount, rpcCalls>>

\* result['dependencies'] = {}
BeginDependencies ==
    /\ pc = "obspy"
    /\ i > Len(ALL_MODULES)
    /\ result' = NewDict(result, "dependencies")
    /\ i' = 1
    /\ pc' = "dependencies"
    /\ UNCHANGED <<argv, environ, env, verbosity, tests, report, names,
                   suites, attempted, stdout, ttr, runCount, rpcCalls>>

\* one pass of "for module in DEPENDENCIES"
DependencyVersion ==
    /\ pc = "dependencies"
    /\ i <= Len(DEPENDENCIES)
    /\ LET module == DEPENDENCIES[i] IN
       IF module \notin env.broken
       THEN /\ result' = DictSet2(result, "dependencies", module,
                                  IF module = "_omnipy"
                                  THEN CoreVersion
                                  ELSE Version(module))
            /\ i' = i + 1
            /\ UNCHANGED pc
       ELSE \E exc \in LookupErrors :
              IF BareExcept(exc)
              THEN /\ result' = OnLookupFailure(result, "dependencies", module)
                   /\ i' = i + 1
                   /\ UNCHANGED pc
              ELSE /\ pc' = "crashed"
                   /\ UNCHANGED <<i, result>>
    /\ UNCHANGED <<argv, environ, env, verbosity, tests, report, names,
                   suites, attempted, stdout, ttr, runCount, rpcCalls>>

\* result['platform'] = {}
BeginPlatform ==
    /\ pc = "dependencies"
    /\ i > Len(DEPENDENCIES)
    /\ result' = NewDict(result, "platform")
    /\ i' = 1
    /\ pc' = "platform"
    /\ UNCHANGED <<argv, environ, env, verbosity, tests, report, names,
                   suites, attempted, stdout, ttr, runCount, rpcCalls>>

\* one pass of "for func in [...]" over the platform queries
PlatformQuery ==
    /\ pc = "platform"
    /\ i <= Len(PLATFORM_FUNCS)
    /\ LET func == PLATFORM_FUNCS[i]
           temp == PlatformCall(func)
       IN
       IF PlatformKey(func) \notin env.broken
       THEN /\ result' = DictSet2(result, "platform", func,
                                  IF temp.type = "tuple"
                                  THEN temp.val[1]
                                  ELSE temp.val)
            /\ i' = i + 1
            /\ UNCHANGED pc
       ELSE \E exc \in LookupErrors :
              IF BareExcept(exc)
              THEN /\ result' = OnLookupFailure(result, "platform", func)
                   /\ i' = i + 1
                   /\ UNCHANGED pc
              ELSE /\ pc' = "crashed"
                   /\ UNCHANGED <<i, result>>
    /\ UNCHANGED <<argv, environ, env, verbosity, tests, report, names,
                   suites, attempted, stdout, ttr, runCount, rpcCalls>>

\* result['errors'] = {}
BeginErrors ==
    /\ pc = "platform"
    /\ i > Len(PLATFORM_FUNCS)
    /\ result' = NewDict(result, "errors")
    /\ i' = 1
    /\ pc' = "errors"
    /\ UNCHANGED <<argv, environ, env, verbosity, tests, report, names,
                   suites, attempted, stdout, ttr, runCount, rpcCalls>>

\* one pass of "for method, text in ttr.errors"
RecordError ==
    /\ pc = "errors"
    /\ i <= Len(ttr.errors)
    /\ result' = DictSet2(result, "errors",
                          Str(ttr.errors[i][1]), ttr.errors[i][2])
    /\ i' = i + 1
    /\ UNCHANGED <<argv, environ, env, pc, verbosity, tests, report, names,
                   suites, attempted, stdout, ttr, runCount, rpcCalls>>

\* result['failures'] = {}
BeginFailures ==
    /\ pc = "errors"
    /\ i > Len(ttr.errors)
    /\ result' = NewDict(result, "failures")
    /\ i' = 1
    /\ pc' = "failures"
    /\ UNCHANGED <<argv, environ, env, verbosity, tests, report, names,
                   suites, attempted, stdout, ttr, runCount, rpcCalls>>

\* one pass of "for method, text in ttr.failures": the assignment goes to
\* result['errors'], as the source has it
RecordFailure ==
    /\ pc = "failures"
    /\ i <= Len(ttr.failures)
    /\ result' = DictSet2(result, "errors",
                          Str(ttr.failures[i][1]), ttr.failures[i][2])
    /\ i' = i + 1
    /\ UNCHANGED <<argv, environ, env, pc, verbosity, tests, report, names,
                   suites, attempted, stdout, ttr, runCount, rpcCalls>>

\* print, then the try / except / else around sp.report(...)
Deliver ==
    /\ pc = "failures"
    /\ i > Len(ttr.failures)
    /\ rpcCalls' = Append(rpcCalls, [success |-> WasSuccessful(ttr),
                                     record  |-> result])
    /\ \/ /\ stdout' = stdout \o
                <<"", "Test report has been sent to http://tests.obspy.org.">>
          /\ pc' = "done"
       \/ \E exc \in DeliveryErrors :
            IF ExceptException(exc)
            THEN /\ stdout' = stdout \o
                     <<"",
                       "Error: Could not sent a test report to http://tests.obspy.org.",
                       exc>>
                 /\ pc' = "done"
            ELSE /\ stdout' = Append(stdout, "")
                 /\ pc' = "crashed"
    /\ UNCHANGED <<argv, environ, env, verbosity, tests, report, names, i,
                   suites, attempted, ttr, runCount, result>>

-----------------------------------------------------------------------------
(* Specifications *)

\* the references a command line is made of: shortcuts, a module that is
\* no shortcut, a qualified suite and a qualified test method
Refs ==
    {"core", "mseed", "fissures", "obspy.mseed.tests.suite",
     "obspy.core.tests.test_stats.StatsTestCase.test_init"}

ReportRefs ==
    {"mseed", "obspy.core.tests.test_stats.StatsTestCase.test_init"}

\* the metadata lookups that may raise: the first and the last module,
\* the dependency read through coreVersion, and the query returning a tuple
BreakableLookups ==
    {"obspy.core", "obspy.seishub", "_omnipy", "platform.architecture"}

Environs == {{}, {"OBSPY_REPORT_TEST"}}

\* up to MaxUnloadable of the names, or all of them
SomeOrAll(N) == SubsetsUpTo(N, MaxUnloadable) \cup {N}

NoneOf(N) == {{}}

NoneOrAll(N) == {{}, N}

AnyOf(N) == SUBSET N

\* the state main starts in: a command line from argvs, an environment from
\* environs, and a machine on which the names of Unl(names) fail to load,
\* the tests of two sets of Bad(names) break and the lookups of one set of
\* brokens raise
InitWith(argvs, environs, Unl(_), Bad(_), brokens) ==
    /\ argv \in argvs
    /\ environ \in environs
    /\ LET N == Range(ResolveNames(argv.largs)) IN
       \E unl \in Unl(N), err \in Bad(N), fail \in Bad(N), brk \in brokens :
          env = [unloadable |-> unl, erroring |-> err, failing |-> fail,
                 broken |-> brk]
    /\ pc = "main"
    /\ verbosity = 1
    /\ tests = <<>>
    /\ report = FALSE
    /\ names = <<>>
    /\ i = 1
    /\ suites = <<>>
    /\ attempted = <<>>
    /\ stdout = <<>>
    /\ ttr = NoResult
    /\ runCount = 0
    /\ result = EmptyDict
    /\ rpcCalls = <<>>

\* every command line of at most MaxTests references, on a machine where
\* the names may fail to load and the tests pass or break together
Init ==
    InitWith([verbose : BOOLEAN, quiet : BOOLEAN, report : BOOLEAN,
              largs : SeqsUpTo(Refs, 0, MaxTests)],
             {{}}, SomeOrAll, NoneOrAll, {{}})

\* command lines of one to MaxReportTests references, with and without the
\* report flag and the environment variable, on a machine where any test
\* may break and the breakable lookups may raise
InitReport ==
    InitWith([verbose : {FALSE}, quiet : {FALSE}, report : BOOLEAN,
              largs : SeqsUpTo(ReportRefs, 1, MaxReportTests)],
             Environs, NoneOf, AnyOf, SUBSET BreakableLookups)

\* command lines of at most MaxLiveTests references, on a machine where
\* names fail to load, tests break and lookups raise
InitLive ==
    InitWith([verbose : {FALSE}, quiet : {FALSE}, report : BOOLEAN,
              largs : SeqsUpTo(Refs, 0, MaxLiveTests)],
             {{}}, SomeOrAll, NoneOrAll, {{}, BreakableLookups})

Next ==
    \/ Main
    \/ Resolve
    \/ LoadName
    \/ ReturnSuite
    \/ RunSuite
    \/ SkipReport
    \/ BeginReport
    \/ ObspyVersion
    \/ BeginDependencies
    \/ DependencyVersion
    \/ BeginPlatform
    \/ PlatformQuery
    \/ BeginErrors
    \/ RecordError
    \/ BeginFailures
    \/ RecordFailure
    \/ Deliver

Spec == Init /\ [][Next]_vars

SpecReport == InitReport /\ [][Next]_vars

\* the program is sequential: a step that can be taken is taken
FairSpec == InitLive /\ [][Next]_vars /\ WF_vars(Next)

-----------------------------------------------------------------------------
(* Properties *)

\* _getSuite has been entered and its name list is built
Resolved == pc \notin {"main", "getSuite"}

\* the loading loop of _getSuite is over
PastLoad == pc \notin {"main", "getSuite", "load", "crashed"}

\* the names the loading loop has dealt with so far
Processed ==
    IF pc = "load" THEN SubSeq(names, 1, i - 1)
    ELSE IF PastLoad THEN names
    ELSE <<>>

\* _createReport has filled the record
Assembled == pc = "failures" \/ (pc = "done" /\ report)

DefaultSuiteNames ==
    <<"obspy.core.tests.suite", "obspy.gse2.tests.suite",
      "obspy.mseed.tests.suite", "obspy.sac.tests.suite",
      "obspy.wav.tests.suite", "obspy.signal.tests.suite",
      "obspy.imaging.tests.suite", "obspy.xseed.tests.suite",
      "obspy.seisan.tests.suite", "obspy.sh.tests.suite">>

KnownShortcuts ==
    {"core", "gse2", "mseed", "sac", "wav", "signal", "imaging", "xseed",
     "seisan", "sh"}

\* C2: for a non-empty list of references the resolved names have the
\* length and order of the list; a known shortcut becomes
\* obspy.<reference>.tests.suite and anything else is kept as given.
C2_ShortcutExpansion ==
    (Resolved /\ tests # <<>>) =>
        /\ Len(names) = Len(tests)
        /\ \A k \in DOMAIN tests :
             names[k] = IF tests[k] \in KnownShortcuts
                        THEN "obspy." \o tests[k] \o ".tests.suite"
                        ELSE tests[k]

C2_Witness ==
    /\ pc = "load"
    /\ \E k, l \in DOMAIN tests :
         /\ tests[k] = "mseed"
         /\ names[k] = "obspy.mseed.tests.suite"
         /\ tests[l] = "fissures"
         /\ names[l] = "fissures"

\* C3: the aggregated collection is the sub-sequence of the resolved names
\* that load, in encounter order, whichever names fail; a failure neither
\* drops another name nor aborts the resolver.
C3_PartialFailureIsolation ==
    /\ pc # "crashed"
    /\ Resolved =>
         [k \in DOMAIN suites |-> suites[k].name]
             = SelectSeq(Processed, LAMBDA n : n \notin env.unloadable)
    /\ PastLoad => Len(attempted) = Len(names)

C3_Witness ==
    /\ pc = "run"
    /\ Len(names) = 10
    /\ names[1] \in env.unloadable
    /\ names[10] \notin env.unloadable
    /\ Len(suites) = 8

DiagnosticFor(name) == "Cannot import test suite for module " \o name

\* the lines of stdout that are load diagnostics
Diagnostics ==
    SelectSeq(stdout, LAMBDA l : l \in {DiagnosticFor(n) : n \in Range(names)})

\* C9: outside quiet mode the diagnostics printed are one line per name that
\* failed to load, naming it, in order, and none for a name that loaded; in
\* quiet mode there is none.
C9_Diagnostics ==
    Resolved =>
        LET failed == SelectSeq(Processed, LAMBDA n : n \in env.unloadable)
        IN  Diagnostics = IF verbosity = 0
                          THEN <<>>
                          ELSE [k \in DOMAIN failed |-> DiagnosticFor(failed[k])]

C9_Witness ==
    /\ pc = "run"
    /\ verbosity = 1
    /\ Len(Diagnostics) = 2
    /\ Len(suites) = 8

ReportKeys ==
    {"timestamp", "obspy", "dependencies", "platform", "errors", "failures"}

\* C4: once the record is assembled its top-level keys are exactly
\* timestamp, obspy, dependencies, platform, errors and failures, whatever
\* lookups raised and whatever tests broke; the record sent has the same keys.
C4_TopLevelKeys ==
    /\ Assembled => DOMAIN result = ReportKeys
    /\ \A k \in DOMAIN rpcCalls : DOMAIN rpcCalls[k].record = ReportKeys

C4_Witness ==
    /\ pc = "done"
    /\ report
    /\ env.broken = BreakableLookups
    /\ ttr.errors = <<>>
    /\ ttr.failures = <<>>
    /\ DOMAIN result = ReportKeys

\* what a platform query that does not raise leaves in the record
PlatformValue(func) ==
    IF func = "architecture" THEN "64bit" ELSE "platform " \o func

\* C5: in the assembled record the version map has the keys ALL_MODULES, the
\* dependency map the keys DEPENDENCIES and the platform map the ten platform
\* queries; a lookup that raised is recorded as the empty string, and every
\* other name keeps the value its own lookup returned.  No lookup failure
\* leaves the program.
C5_LookupFailures ==
    /\ pc # "crashed"
    /\ Assembled =>
         /\ DOMAIN result["obspy"] = Range(ALL_MODULES)
         /\ DOMAIN result["dependencies"] = Range(DEPENDENCIES)
         /\ DOMAIN result["platform"] = Range(PLATFORM_FUNCS)
         /\ \A m \in Range(ALL_MODULES) :
              result["obspy"][m] =
                  IF "obspy." \o m \in env.broken THEN "" ELSE Version(m)
         /\ \A m \in Range(DEPENDENCIES) :
              result["dependencies"][m] =
                  IF m \in env.broken THEN ""
                  ELSE IF m = "_omnipy" THEN CoreVersion ELSE Version(m)
         /\ \A f \in Range(PLATFORM_FUNCS) :
              result["platform"][f] =
                  IF "platform." \o f \in env.broken THEN ""
                  ELSE PlatformValue(f)

C5_Witness ==
    /\ pc = "done"
    /\ report
    /\ env.broken = {"obspy.core", "_omnipy"}
    /\ result["obspy"]["core"] = ""
    /\ result["obspy"]["gse2"] # ""
    /\ result["dependencies"]["_omnipy"] = ""
    /\ result["platform"]["architecture"] = "64bit"

\* the dict { str(method): text } of a list of (method, text) pairs
OutcomeMap(pairs) ==
    [key \in {Str(pairs[k][1]) : k \in DOMAIN pairs} |->
        LET k == CHOOSE k \in DOMAIN pairs :
                    /\ Str(pairs[k][1]) = key
                    /\ \A l \in DOMAIN pairs :
                         Str(pairs[l][1]) = key => l <= k
        IN  pairs[k][2]]

\* C6: the assembled record maps each errored test to its error text in
\* result['errors'] and each failed test to its failure text in
\* result['failures'].
C6_OutcomeMaps ==
    (pc = "done" /\ report) =>
        /\ result["errors"] = OutcomeMap(ttr.errors)
        /\ result["failures"] = OutcomeMap(ttr.failures)

DeliveryFailureLine ==
    "Error: Could not sent a test report to http://tests.obspy.org."

DeliverySuccessLine == "Test report has been sent to http://tests.obspy.org."

\* C7: the step that attempts the remote call ends _createReport normally
\* and leaves the run result as it was; it prints the success line when the
\* call returned and the error line when the call failed.
C7_BestEffortDelivery ==
    [][Len(rpcCalls') > Len(rpcCalls) =>
          /\ pc' = "done"
          /\ ttr' = ttr
          /\ WasSuccessful(ttr') = WasSuccessful(ttr)
          /\ \/ /\ stdout'[Len(stdout')] = DeliverySuccessLine
                /\ DeliveryFailureLine \notin Range(stdout')
             \/ /\ stdout'[Len(stdout') - 1] = DeliveryFailureLine
                /\ DeliverySuccessLine \notin Range(stdout')]_vars

C7_Witness ==
    /\ pc = "done"
    /\ Len(rpcCalls) = 1
    /\ DeliveryFailureLine \in Range(stdout)
    /\ "xmlrpclib.ProtocolError" \in Range(stdout)
    /\ ttr.failures # <<>>
    /\ ~rpcCalls[1].success

\* report-sending is requested on the command line or through the environment
Requested == argv.report \/ "OBSPY_REPORT_TEST" \in environ

\* C8: names are resolved and loaded before the runner runs, and the runner
\* has run before a record exists or a call is made; the runner runs once;
\* when report-sending is requested the run ends with exactly one call,
\* carrying the success flag of the run, and otherwise with no record and
\* no call; there is never a second call.
C8_ControlFlow ==
    /\ runCount <= 1
    /\ Len(rpcCalls) <= 1
    /\ Resolved => report = Requested
    /\ runCount = 1 => PastLoad /\ Len(attempted) = Len(names)
    /\ DOMAIN result # {} => runCount = 1 /\ Requested
    /\ \A k \in DOMAIN rpcCalls :
         /\ runCount = 1
         /\ Requested
         /\ rpcCalls[k].success =
                (Len(ttr.errors) = 0 /\ Len(ttr.failures) = 0)
    /\ pc = "done" =>
         /\ runCount = 1
         /\ Requested => Len(rpcCalls) = 1
         /\ ~Requested => rpcCalls = <<>> /\ DOMAIN result = {}

C8_Witness ==
    /\ pc = "done"
    /\ ~argv.report
    /\ "OBSPY_REPORT_TEST" \in environ
    /\ Len(rpcCalls) = 1
    /\ ~rpcCalls[1].success
    /\ DeliveryFailureLine \in Range(stdout)

\* C10: every run reaches its end: all resolved names have been handed to
\* the loader, the runner has run once and, when a report was asked for,
\* the one call has been made.
C10_Termination ==
    <>(/\ pc = "done"
       /\ Len(attempted) = Len(names)
       /\ runCount = 1
       /\ report => Len(rpcCalls) = 1)

C10_Witness ==
    /\ pc = "done"
    /\ Len(names) > 0
    /\ Range(names) \subseteq env.unloadable
    /\ suites = <<>>
    /\ env.broken = BreakableLookups
    /\ Len(rpcCalls) = 1
    /\ DeliveryFailureLine \in Range(stdout)

====
